---- MODULE Spec2Model ----
(***************************************************************************)
(* Panel-tree layout engine and page editor of the Storybook Builder.      *)
(*                                                                         *)
(* Sizes are JavaScript numbers.  They are modelled as exact rationals     *)
(* [n, d] (d > 0, lowest terms) extended with the IEEE special values      *)
(* NaN = [0, 0], +Infinity = [1, 0] and -Infinity = [-1, 0].  Rounding     *)
(* error of doubles (about 1e-16 per operation) is far below the 1e-6      *)
(* tolerance of the size invariants and is not modelled.                   *)
(* Node identifiers are naturals; uid() draws them from a counter.         *)
(* Indices passed to operations are 0-based as in the source; sequences    *)
(* are 1-based, so children[i] of the source is children[i + 1] here.      *)
(***************************************************************************)
EXTENDS Integers, Sequences, FiniteSets, TLC

VARIABLES pages, pageInfos, history, historyIndex, selectedPage, selectedId,
          spreadIndex, drag, gen, generationJobs, generatedImages, isGenerating,
          pending, nextId, last, steps

vars == <<pages, pageInfos, history, historyIndex, selectedPage, selectedId,
          spreadIndex, drag, gen, generationJobs, generatedImages, isGenerating,
          pending, nextId, last, steps>>

----------------------------------------------------------------------------
(* Bounds of the model *)

MaxSteps == 3

MaxPages == 2

MaxEngineSteps == 2

MaxResizeSteps == 4

MaxPanelSteps == 4

MaxHistorySteps == 4

MaxKeySteps == 1

\* operations in one run of the editor with generation requests in flight
MaxGenSteps == 5

\* operations in one run of the editor with drag gestures and undo
MaxDragSteps == 5

\* operations in one run of the start page's generation queue
MaxJobSteps == 5

\* generation jobs started in one run
MaxJobs == 2

MaxDen == 2000

----------------------------------------------------------------------------
(* JavaScript numbers *)

Abs(x) == IF x < 0 THEN -x ELSE x

Sgn(x) == IF x < 0 THEN -1 ELSE IF x > 0 THEN 1 ELSE 0

RECURSIVE Gcd(_, _)
Gcd(a, b) == IF b = 0 THEN a ELSE Gcd(b, a % b)

Norm(n, d) ==
    IF d = 0 THEN [n |-> Sgn(n), d |-> 0]
    ELSE LET g == Gcd(Abs(n), Abs(d))
             s == IF d < 0 THEN -1 ELSE 1
         IN  [n |-> s * (n \div g), d |-> s * (d \div g)]

Frac(n, d) == Norm(n, d)

NaN == [n |-> 0, d |-> 0]

IsNaN(a) == a.d = 0 /\ a.n = 0

IsInf(a) == a.d = 0 /\ a.n # 0

IsFinite(a) == a.d > 0

Zero == Frac(0, 1)

One == Frac(1, 1)

RNeg(a) == [n |-> -a.n, d |-> a.d]

RAdd(a, b) ==
    IF IsNaN(a) \/ IsNaN(b) THEN NaN
    ELSE IF IsInf(a) /\ IsInf(b) THEN (IF a.n = b.n THEN a ELSE NaN)
    ELSE IF IsInf(a) THEN a
    ELSE IF IsInf(b) THEN b
    ELSE Norm(a.n * b.d + b.n * a.d, a.d * b.d)

RSub(a, b) == RAdd(a, RNeg(b))

RMul(a, b) ==
    IF IsNaN(a) \/ IsNaN(b) THEN NaN
    ELSE IF IsInf(a) \/ IsInf(b)
         THEN [n |-> Sgn(a.n) * Sgn(b.n), d |-> 0]
    ELSE Norm(a.n * b.n, a.d * b.d)

RDiv(a, b) ==
    IF IsNaN(a) \/ IsNaN(b) THEN NaN
    ELSE IF IsInf(a) /\ IsInf(b) THEN NaN
    ELSE IF IsInf(a) THEN [n |-> IF b.n < 0 THEN -a.n ELSE a.n, d |-> 0]
    ELSE IF IsInf(b) THEN Zero
    ELSE Norm(a.n * b.d, a.d * b.n)

\* a < b for numbers that are not NaN (every comparison with NaN is false)
RLt(a, b) ==
    /\ ~IsNaN(a) /\ ~IsNaN(b)
    /\ IF IsInf(a) THEN a.n < 0 /\ ~(IsInf(b) /\ b.n < 0)
       ELSE IF IsInf(b) THEN b.n > 0
       ELSE a.n * b.d < b.n * a.d

RLe(a, b) == ~IsNaN(a) /\ ~IsNaN(b) /\ ~RLt(b, a)

MathMax(a, b) == IF IsNaN(a) \/ IsNaN(b) THEN NaN ELSE IF RLt(a, b) THEN b ELSE a

MathMin(a, b) == IF IsNaN(a) \/ IsNaN(b) THEN NaN ELSE IF RLt(b, a) THEN b ELSE a

RECURSIVE SumFrom(_, _)
SumFrom(s, i) == IF i > Len(s) THEN Zero ELSE RAdd(s[i], SumFrom(s, i + 1))

SumSizes(s) == SumFrom(s, 1)

\* reading an array slot: a slot past the end is undefined, which every
\* arithmetic operator turns into NaN
Slot(s, i) == IF i \in 1..Len(s) THEN s[i] ELSE NaN

\* writing an array slot: a write past the end extends the array
StoreSlot(s, i, v) ==
    IF i \in 1..Len(s) THEN [s EXCEPT ![i] = v]
    ELSE [k \in 1..i |-> IF k = i THEN v ELSE Slot(s, k)]

----------------------------------------------------------------------------
(* Nodes *)

NoId == 0

uid(seed) == seed

DefaultText == "Click to edit this segment..."

DEFAULT_LEAF(seed) ==
    [id |-> uid(seed), kind |-> "leaf", contentType |-> "text",
     textProps |-> [text |-> DefaultText, bold |-> FALSE],
     imageProps |-> [url |-> "", objectFit |-> "cover"]]

Split(id, direction, sizes, children) ==
    [id |-> id, kind |-> "split", direction |-> direction,
     sizes |-> sizes, children |-> children]

Pct(k) == Frac(k, 100)

layoutTwoColumns(b) ==
    Split(uid(b), "horizontal", <<Pct(50), Pct(50)>>,
          <<DEFAULT_LEAF(b + 1), DEFAULT_LEAF(b + 2)>>)

layoutThreeColumns(b) ==
    Split(uid(b), "horizontal", <<Pct(33), Pct(33), Pct(34)>>,
          <<DEFAULT_LEAF(b + 1), DEFAULT_LEAF(b + 2), DEFAULT_LEAF(b + 3)>>)

layoutTwoByTwo(b) ==
    Split(uid(b), "vertical", <<Pct(50), Pct(50)>>,
          <<Split(uid(b + 1), "horizontal", <<Pct(50), Pct(50)>>,
                  <<DEFAULT_LEAF(b + 2), DEFAULT_LEAF(b + 3)>>),
            Split(uid(b + 4), "horizontal", <<Pct(50), Pct(50)>>,
                  <<DEFAULT_LEAF(b + 5), DEFAULT_LEAF(b + 6)>>)>>)

layoutMagazine(b) ==
    Split(uid(b), "horizontal", <<Pct(62), Pct(38)>>,
          <<DEFAULT_LEAF(b + 1),
            Split(uid(b + 2), "vertical", <<Pct(60), Pct(40)>>,
                  <<DEFAULT_LEAF(b + 3), DEFAULT_LEAF(b + 4)>>)>>)

layoutHeaderColumns(b) ==
    Split(uid(b), "vertical", <<Pct(25), Pct(75)>>,
          <<DEFAULT_LEAF(b + 1),
            Split(uid(b + 2), "horizontal", <<Pct(50), Pct(50)>>,
                  <<DEFAULT_LEAF(b + 3), DEFAULT_LEAF(b + 4)>>)>>)

layoutFullBleed(b) ==
    Split(uid(b), "horizontal", <<Pct(100)>>, <<DEFAULT_LEAF(b + 1)>>)

layoutComic6Panel(b) ==
    Split(uid(b), "vertical", <<Pct(33), Pct(33), Pct(34)>>,
          <<Split(uid(b + 1), "horizontal", <<Pct(50), Pct(50)>>,
                  <<DEFAULT_LEAF(b + 2), DEFAULT_LEAF(b + 3)>>),
            Split(uid(b + 4), "horizontal", <<Pct(50), Pct(50)>>,
                  <<DEFAULT_LEAF(b + 5), DEFAULT_LEAF(b + 6)>>),
            Split(uid(b + 7), "horizontal", <<Pct(50), Pct(50)>>,
                  <<DEFAULT_LEAF(b + 8), DEFAULT_LEAF(b + 9)>>)>>)

layoutComicSplash(b) ==
    Split(uid(b), "vertical", <<Pct(80), Pct(20)>>,
          <<DEFAULT_LEAF(b + 1),
            Split(uid(b + 2), "horizontal", <<Pct(33), Pct(33), Pct(34)>>,
                  <<DEFAULT_LEAF(b + 3), DEFAULT_LEAF(b + 4), DEFAULT_LEAF(b + 5)>>)>>)

layoutPyramid(b) ==
    Split(uid(b), "vertical", <<Pct(30), Pct(70)>>,
          <<DEFAULT_LEAF(b + 1),
            Split(uid(b + 2), "horizontal", <<Pct(25), Pct(50), Pct(25)>>,
                  <<DEFAULT_LEAF(b + 3), DEFAULT_LEAF(b + 4), DEFAULT_LEAF(b + 5)>>)>>)

PresetNames ==
    {"Two Col", "Three Col", "2x2", "Magazine", "Header+Cols", "Full",
     "6-Panel", "Splash", "Pyramid"}

\* PRESETS[name].build()
PRESETS(name, b) ==
    CASE name = "Two Col"     -> layoutTwoColumns(b)
      [] name = "Three Col"   -> layoutThreeColumns(b)
      [] name = "2x2"         -> layoutTwoByTwo(b)
      [] name = "Magazine"    -> layoutMagazine(b)
      [] name = "Header+Cols" -> layoutHeaderColumns(b)
      [] name = "Full"        -> layoutFullBleed(b)
      [] name = "6-Panel"     -> layoutComic6Panel(b)
      [] name = "Splash"      -> layoutComicSplash(b)
      [] name = "Pyramid"     -> layoutPyramid(b)

----------------------------------------------------------------------------
(* Tree queries *)

Null == [id |-> NoId, kind |-> "null"]

RECURSIVE NodeCount(_)
NodeCount(node) ==
    IF node.kind = "split"
    THEN LET RECURSIVE Sum(_)
             Sum(i) == IF i > Len(node.children) THEN 0
                       ELSE NodeCount(node.children[i]) + Sum(i + 1)
         IN  1 + Sum(1)
    ELSE 1

\* identifiers of a tree in depth-first order, with repetitions
RECURSIVE IdList(_)
IdList(node) ==
    IF node.kind = "split"
    THEN LET RECURSIVE Cat(_)
             Cat(i) == IF i > Len(node.children) THEN <<>>
                       ELSE IdList(node.children[i]) \o Cat(i + 1)
         IN  <<node.id>> \o Cat(1)
    ELSE <<node.id>>

NodeIds(node) == {IdList(node)[i] : i \in 1..Len(IdList(node))}

\* every node of a tree (as a set of records)
RECURSIVE Nodes(_)
Nodes(node) ==
    IF node.kind = "split"
    THEN {node} \cup UNION {Nodes(node.children[i]) : i \in 1..Len(node.children)}
    ELSE {node}

SplitNodes(node) == {m \in Nodes(node) : m.kind = "split"}

RECURSIVE findNode(_, _)
findNode(node, id) ==
    IF node.id = id THEN node
    ELSE IF node.kind = "split"
    THEN LET found == [i \in 1..Len(node.children) |-> findNode(node.children[i], id)]
             hits  == {i \in 1..Len(node.children) : found[i] # Null}
         IN  IF hits = {} THEN Null
             ELSE found[CHOOSE i \in hits : \A j \in hits : i <= j]
    ELSE Null

----------------------------------------------------------------------------
(* Updaters: the functions handed to updateNode *)

MinSize == Frac(8, 100)

applyResizeRestOfOne(n, index, delta) ==
    IF n.kind # "split" THEN n
    ELSE LET sizes == n.sizes
             min   == MinSize
             total == RAdd(Slot(sizes, index + 1), Slot(sizes, index + 2))
             a0    == RAdd(Slot(sizes, index + 1), delta)
             a     == MathMax(min, MathMin(a0, RSub(total, min)))
             s1    == StoreSlot(sizes, index + 1, a)
             s2    == StoreSlot(s1, index + 2, RSub(One, a))
         IN  [n EXCEPT !.sizes = s2]

applyResizeLowFloor(n, index, delta) ==
    IF n.kind # "split" THEN n
    ELSE LET sizes == n.sizes
             min   == Frac(5, 100)
             total == RAdd(Slot(sizes, index + 1), Slot(sizes, index + 2))
             a0    == RAdd(Slot(sizes, index + 1), delta)
             a     == MathMax(min, MathMin(a0, RSub(total, min)))
             s1    == StoreSlot(sizes, index + 1, a)
             s2    == StoreSlot(s1, index + 2, RSub(total, a))
         IN  [n EXCEPT !.sizes = s2]

applyResizeClampLow(n, index, delta) ==
    IF n.kind # "split" THEN n
    ELSE LET sizes == n.sizes
             min   == MinSize
             total == RAdd(Slot(sizes, index + 1), Slot(sizes, index + 2))
             a0    == RAdd(Slot(sizes, index + 1), delta)
             a     == MathMax(min, a0)
             s1    == StoreSlot(sizes, index + 1, a)
             s2    == StoreSlot(s1, index + 2, RSub(total, a))
         IN  [n EXCEPT !.sizes = s2]

applyResize(n, index, delta) ==
    IF n.kind # "split" THEN n
    ELSE LET sizes == n.sizes
             min   == MinSize
             total == RAdd(Slot(sizes, index + 1), Slot(sizes, index + 2))
             a0    == RAdd(Slot(sizes, index + 1), delta)
             a     == MathMax(min, MathMin(a0, RSub(total, min)))
             s1    == StoreSlot(sizes, index + 1, a)
             s2    == StoreSlot(s1, index + 2, RSub(total, a))
         IN  [n EXCEPT !.sizes = s2]

SliderMin == Frac(5, 100)

SliderMax == Frac(95, 100)

\* SplitInspector: the onValueChange of the size slider of child i
sliderOnValueChange(n, i, value) ==
    LET sizes  == n.sizes
        val    == MathMin(SliderMax, MathMax(SliderMin, value))
        rest   == MathMax(SliderMin, RSub(One, val))
        factor == RDiv(rest, RSub(One, sizes[i + 1]))
        newSizes == [idx \in 1..Len(sizes) |->
                        IF idx = i + 1 THEN val
                        ELSE MathMax(SliderMin, RMul(sizes[idx], factor))]
    IN  [n EXCEPT !.sizes = newSizes]

\* SplitInspector: the onValueChange of the direction select
directionOnValueChange(n, value) == [n EXCEPT !.direction = value]

\* handleTextPropsChange: the updater merging `updates` into textProps
textPropsUpdater(n, updates) ==
    IF n.kind # "leaf" THEN n
    ELSE [n EXCEPT !.textProps =
            [f \in DOMAIN n.textProps |->
                IF f \in DOMAIN updates THEN updates[f] ELSE n.textProps[f]]]

appendGeneratedLine(existingText, newLine) ==
    IF existingText # "" THEN existingText \o "\n\n" \o newLine ELSE newLine

appendTextUpdater(n, line) ==
    IF n.kind # "leaf" THEN n
    ELSE [n EXCEPT !.textProps.text = appendGeneratedLine(n.textProps.text, line)]

imageUpdater(n, url) ==
    IF n.kind # "leaf" THEN n
    ELSE [n EXCEPT !.contentType = "image", !.imageProps.url = url]

ApplyUpdater(u, n) ==
    CASE u.t = "resize"    -> applyResize(n, u.index, u.delta)
      [] u.t = "slider"    -> sliderOnValueChange(n, u.index, u.value)
      [] u.t = "direction" -> directionOnValueChange(n, u.value)
      [] u.t = "text"      -> textPropsUpdater(n, u.updates)
      [] u.t = "append"    -> appendTextUpdater(n, u.line)
      [] u.t = "image"     -> imageUpdater(n, u.url)

updateNodeShallow(node, id, u) ==
    IF node.id = id THEN ApplyUpdater(u, node)
    ELSE IF node.kind = "split"
    THEN [node EXCEPT !.children =
            [i \in 1..Len(node.children) |->
                IF node.children[i].id = id THEN ApplyUpdater(u, node.children[i])
                ELSE node.children[i]]]
    ELSE node

RECURSIVE updateNodeEveryLeaf(_, _, _)
updateNodeEveryLeaf(node, id, u) ==
    IF node.id = id \/ node.kind = "leaf" THEN ApplyUpdater(u, node)
    ELSE [node EXCEPT !.children =
            [i \in 1..Len(node.children) |-> updateNodeEveryLeaf(node.children[i], id, u)]]

RECURSIVE updateNode(_, _, _)
updateNode(node, id, u) ==
    IF node.id = id THEN ApplyUpdater(u, node)
    ELSE IF node.kind = "split"
    THEN [node EXCEPT !.children =
            [i \in 1..Len(node.children) |-> updateNode(node.children[i], id, u)]]
    ELSE node

\* how many times updateNode(node, id, updater) invokes the updater
RECURSIVE UpdaterCalls(_, _)
UpdaterCalls(node, id) ==
    IF node.id = id THEN 1
    ELSE IF node.kind = "split"
    THEN LET RECURSIVE Sum(_)
             Sum(i) == IF i > Len(node.children) THEN 0
                       ELSE UpdaterCalls(node.children[i], id) + Sum(i + 1)
         IN  Sum(1)
    ELSE 0

----------------------------------------------------------------------------
(* Tree operations of utils/nodeUtils and components/PanelOperationsMenu   *)
(* whose code is not part of the sources; modelled from the specification  *)
(* (sections 4.2, 4.3 and 8).                                              *)

IndexOfChild(node, id) ==
    LET hits == {i \in 1..Len(node.children) : node.children[i].id = id}
    IN  IF hits = {} THEN 0 ELSE CHOOSE i \in hits : \A j \in hits : i <= j

RECURSIVE findParentNode(_, _)
findParentNode(root, id) ==
    IF root.kind # "split" THEN Null
    ELSE IF IndexOfChild(root, id) # 0 THEN root
    ELSE LET found == [i \in 1..Len(root.children) |-> findParentNode(root.children[i], id)]
             hits  == {i \in 1..Len(root.children) : found[i] # Null}
         IN  IF hits = {} THEN Null
             ELSE found[CHOOSE i \in hits : \A j \in hits : i <= j]

RECURSIVE replaceNode(_, _, _)
replaceNode(root, id, newNode) ==
    IF root.id = id THEN newNode
    ELSE IF root.kind = "split"
    THEN [root EXCEPT !.children =
            [i \in 1..Len(root.children) |-> replaceNode(root.children[i], id, newNode)]]
    ELSE root

RemoveAt(s, i) == [k \in 1..(Len(s) - 1) |-> IF k < i THEN s[k] ELSE s[k + 1]]

InsertAfter(s, i, v) ==
    [k \in 1..(Len(s) + 1) |-> IF k <= i THEN s[k] ELSE IF k = i + 1 THEN v ELSE s[k - 1]]

Renormalize(sizes) == [k \in 1..Len(sizes) |-> RDiv(sizes[k], SumSizes(sizes))]

RECURSIVE removeNode(_, _)
removeNode(root, id) ==
    IF root.id = id \/ root.kind # "split" THEN root
    ELSE LET i == IndexOfChild(root, id)
         IN  IF i # 0
             THEN IF Len(root.children) <= 1 THEN root
                  ELSE [root EXCEPT !.children = RemoveAt(root.children, i),
                                    !.sizes = Renormalize(RemoveAt(root.sizes, i))]
             ELSE [root EXCEPT !.children =
                     [k \in 1..Len(root.children) |-> removeNode(root.children[k], id)]]

\* deep copy of a subtree with fresh identifiers b, b+1, ... in depth-first order
RECURSIVE CloneFresh(_, _)
CloneFresh(node, b) ==
    IF node.kind = "split"
    THEN LET RECURSIVE Off(_)
             Off(i) == IF i = 1 THEN b + 1
                       ELSE Off(i - 1) + NodeCount(node.children[i - 1])
         IN  [node EXCEPT !.id = uid(b),
                          !.children = [i \in 1..Len(node.children) |->
                                           CloneFresh(node.children[i], Off(i))]]
    ELSE [node EXCEPT !.id = uid(b)]

Half == Frac(1, 2)

RECURSIVE duplicateNodeInParent(_, _, _)
duplicateNodeInParent(root, id, b) ==
    IF root.id = id \/ root.kind # "split" THEN root
    ELSE LET i == IndexOfChild(root, id)
         IN  IF i # 0
             THEN LET h == RMul(root.sizes[i], Half)
                  IN  [root EXCEPT
                         !.children = InsertAfter(root.children, i,
                                                  CloneFresh(root.children[i], b)),
                         !.sizes = InsertAfter([root.sizes EXCEPT ![i] = h], i, h)]
             ELSE [root EXCEPT !.children =
                     [k \in 1..Len(root.children) |->
                         duplicateNodeInParent(root.children[k], id, b)]]

EqualSizes(count) == [k \in 1..count |-> Frac(1, count)]

splitLeafNode(leaf, direction, count, b) ==
    Split(uid(b), direction, EqualSizes(count),
          [k \in 1..count |->
              IF k = 1 THEN [leaf EXCEPT !.id = uid(b + 1)] ELSE DEFAULT_LEAF(b + k)])

splitSplitNode(node, direction, count, b) ==
    Split(uid(b), direction, EqualSizes(count),
          [k \in 1..count |-> IF k = 1 THEN node ELSE DEFAULT_LEAF(b + k - 1)])

----------------------------------------------------------------------------
(* The editor: state of the GraphicNovelBuilder page *)

\* JSON.parse(JSON.stringify(x)): NaN, the infinities and undefined slots
\* become null, which every arithmetic operator of the source reads as 0
JsonNull == Zero

RECURSIVE JsonClone(_)
JsonClone(node) ==
    IF node.kind = "split"
    THEN [node EXCEPT
            !.sizes = [i \in 1..Len(node.sizes) |->
                          IF IsFinite(node.sizes[i]) THEN node.sizes[i] ELSE JsonNull],
            !.children = [i \in 1..Len(node.children) |-> JsonClone(node.children[i])]]
    ELSE node

JsonClonePages(ps) == [i \in 1..Len(ps) |-> JsonClone(ps[i])]

\* the module-level preset catalogue: every preset has one root object,
\* built once, whose identifiers never change
PresetBase(name) ==
    CASE name = "Two Col"     -> 1
      [] name = "Three Col"   -> 11
      [] name = "2x2"         -> 21
      [] name = "Magazine"    -> 31
      [] name = "Header+Cols" -> 41
      [] name = "Full"        -> 51
      [] name = "6-Panel"     -> 61
      [] name = "Splash"      -> 71
      [] name = "Pyramid"     -> 81

PresetRoot(name) == PRESETS(name, PresetBase(name))

FirstUid == 101

getDefaultPreset(name, b) == PRESETS(name, b)

\* no generation request in flight; info is the pageInfos id of the page the
\* request was started on, kept to tell that page from the others later
NoGen == [active |-> FALSE, kind |-> "", page |-> 0, id |-> NoId,
          history |-> <<>>, historyIndex |-> 0, info |-> 0]

\* no drag gesture; sizes holds what the dragged split had at mouse-down,
\* moved tells whether a mousemove was handled since, history and
\* historyIndex are those of the render whose onResize the mousemove
\* listener keeps calling
NoDrag == [active |-> FALSE, page |-> 0, id |-> NoId, index |-> 0, sizes |-> <<>>,
           moved |-> FALSE, history |-> <<>>, historyIndex |-> 0]

\* the last operation: its name, its arguments, whether it went past its
\* guards, and the pages and the uid counter it started from
NoUpdater == [t |-> "none"]

NoOp == [op |-> "init", page |-> 0, id |-> NoId, index |-> 0, arg |-> Zero,
         str |-> "", done |-> FALSE, pre |-> <<>>, base |-> 0, calls |-> 0,
         u |-> NoUpdater]

Did(op, page, id, index, arg, str, done) ==
    [op |-> op, page |-> page, id |-> id, index |-> index, arg |-> arg,
     str |-> str, done |-> done, pre |-> pages, base |-> nextId, calls |-> 0,
     u |-> NoUpdater]

PageInfo(id, n, copies) == [id |-> id, name |-> [page |-> n, copies |-> copies], hidden |-> FALSE]

\* the presets the editor is started from and offered in the preset panel
EditorPresets == {"Two Col", "Three Col", "Magazine", "Full"}

InitWith(root, saved) ==
    /\ pages = <<root>>
    /\ pageInfos = <<PageInfo(FirstUid + 20, 1, 0)>>
    /\ history = <<<<saved>>>>
    /\ historyIndex = 0
    /\ selectedPage = 0
    /\ selectedId = NoId
    /\ spreadIndex = 0
    /\ drag = NoDrag
    /\ gen = NoGen
    /\ generationJobs = <<>>
    /\ generatedImages = <<>>
    /\ isGenerating = FALSE
    /\ pending = {}
    /\ nextId = FirstUid + 21
    /\ last = NoOp
    /\ steps = 0

Init ==
    \E name \in EditorPresets :
        InitWith(getDefaultPreset(name, FirstUid), getDefaultPreset(name, FirstUid + 10))

\* selectedNode and parentNode (useMemo)
selectedNode ==
    IF selectedId = NoId \/ selectedPage >= Len(pages) THEN Null
    ELSE findNode(pages[selectedPage + 1], selectedId)

parentNode ==
    IF selectedId = NoId \/ selectedPage >= Len(pages) THEN Null
    ELSE findParentNode(pages[selectedPage + 1], selectedId)

saveToHistory(newPages) ==
    SubSeq(history, 1, historyIndex + 1) \o <<JsonClonePages(newPages)>>

updatePage(pageIndex, updater(_)) ==
    [i \in 1..Len(pages) |-> IF i = pageIndex + 1 THEN updater(pages[i]) ELSE pages[i]]

\* Commit with setHistoryIndex(newHistory.length)
CommitIndexPastEnd(newPages) ==
    /\ pages' = newPages
    /\ history' = saveToHistory(newPages)
    /\ historyIndex' = Len(saveToHistory(newPages))

\* setPages(newPages) together with the saveToHistory(newPages) of updatePage
Commit(newPages) ==
    /\ pages' = newPages
    /\ history' = saveToHistory(newPages)
    /\ historyIndex' = Len(saveToHistory(newPages)) - 1

Tick == steps' = steps + 1

\* updatePage of an earlier render, the one that started a generation request
\* or a drag gesture: setPages works on the current pages, saveToHistory on
\* the history and historyIndex of that render
CommitFrom(req, newPages) ==
    /\ pages' = newPages
    /\ history' = SubSeq(req.history, 1, req.historyIndex + 1) \o <<JsonClonePages(newPages)>>
    /\ historyIndex' = Len(SubSeq(req.history, 1, req.historyIndex + 1))

----------------------------------------------------------------------------
(* Inputs *)

Directions == {"horizontal", "vertical"}

SplitCounts == {2, 3}

Deltas == {Frac(-3, 5), Frac(1, 10), Frac(3, 5)}

SliderValues == {Frac(5, 100), Frac(50, 100), Frac(95, 100)}

TextUpdates == {[text |-> "Hello"], [bold |-> TRUE]}

SpreadPages == {p \in {spreadIndex, spreadIndex + 1} : p < Len(pages)}

LeafIds(node) == {m.id : m \in {x \in Nodes(node) : x.kind = "leaf"}}

----------------------------------------------------------------------------
(* Selection *)

\* RenderNode onSelect: a click on a leaf of a page of the spread
OnSelect(p, id) ==
    /\ Tick
    /\ p \in SpreadPages /\ id \in LeafIds(pages[p + 1])
    /\ selectedPage' = p /\ selectedId' = id
    /\ last' = Did("select", p, id, 0, Zero, "", TRUE)
    /\ UNCHANGED <<generationJobs, generatedImages, isGenerating, pending,
                   gen, pages, pageInfos, history, historyIndex, spreadIndex, drag, nextId>>

\* LayersPanel onSelectNode = setSelectedId
OnSelectNode(id) ==
    /\ Tick
    /\ selectedPage < Len(pages) /\ id \in NodeIds(pages[selectedPage + 1])
    /\ selectedId' = id
    /\ last' = Did("selectNode", selectedPage, id, 0, Zero, "", TRUE)
    /\ UNCHANGED <<generationJobs, generatedImages, isGenerating, pending,
                   gen, pages, pageInfos, history, historyIndex, selectedPage, spreadIndex,
                   drag, nextId>>

\* PageThumbnailTray onSelectPage
OnSelectPage(i) ==
    /\ Tick
    /\ i \in 0..(Len(pages) - 1)
    /\ selectedPage' = i
    /\ spreadIndex' = IF i % 2 = 0 THEN i ELSE i - 1
    /\ selectedId' = NoId
    /\ last' = Did("selectPage", i, NoId, 0, Zero, "", TRUE)
    /\ UNCHANGED <<generationJobs, generatedImages, isGenerating, pending,
                   gen, pages, pageInfos, history, historyIndex, drag, nextId>>

----------------------------------------------------------------------------
(* Panel operations *)

handleSplitPanelInTwo(direction, count) ==
    /\ Tick
    /\ selectedNode # Null
    /\ LET newNode == IF selectedNode.kind = "leaf"
                      THEN splitLeafNode(selectedNode, direction, 2, nextId)
                      ELSE splitSplitNode(selectedNode, direction, 2, nextId)
       IN  /\ Commit(updatePage(selectedPage,
                                LAMBDA prev : replaceNode(prev, selectedNode.id, newNode)))
           /\ selectedId' = newNode.children[1].id
           /\ nextId' = nextId + count + 1
           /\ last' = Did("split", selectedPage, selectedId, count, Zero, direction, TRUE)
    /\ UNCHANGED <<generationJobs, generatedImages, isGenerating, pending,
                   gen, pageInfos, selectedPage, spreadIndex, drag>>

handleSplitPanel(direction, count) ==
    /\ Tick
    /\ selectedNode # Null
    /\ LET newNode == IF selectedNode.kind = "leaf"
                      THEN splitLeafNode(selectedNode, direction, count, nextId)
                      ELSE splitSplitNode(selectedNode, direction, count, nextId)
       IN  /\ Commit(updatePage(selectedPage,
                                LAMBDA prev : replaceNode(prev, selectedNode.id, newNode)))
           /\ selectedId' = newNode.children[1].id
           /\ nextId' = nextId + count + 1
           /\ last' = Did("split", selectedPage, selectedId, count, Zero, direction, TRUE)
    /\ UNCHANGED <<generationJobs, generatedImages, isGenerating, pending,
                   gen, pageInfos, selectedPage, spreadIndex, drag>>

handleMergePanel ==
    /\ Tick
    /\ selectedNode # Null
    /\ IF \/ parentNode = Null
          \/ IndexOfChild(parentNode, selectedNode.id) = 0
          \/ Len(parentNode.children) <= 1
       THEN /\ last' = Did("merge", selectedPage, selectedId, 0, Zero, "", FALSE)
            /\ UNCHANGED <<pages, history, historyIndex, selectedId>>
       ELSE /\ Commit(updatePage(selectedPage,
                                 LAMBDA prev : removeNode(prev, selectedNode.id)))
            /\ selectedId' = NoId
            /\ last' = Did("merge", selectedPage, selectedId, 0, Zero, "", TRUE)
    /\ UNCHANGED <<generationJobs, generatedImages, isGenerating, pending,
                   gen, pageInfos, selectedPage, spreadIndex, drag, nextId>>

handleDeletePanelNoGuard ==
    /\ Tick
    /\ selectedNode # Null
    /\ Commit(updatePage(selectedPage, LAMBDA prev : removeNode(prev, selectedNode.id)))
    /\ selectedId' = NoId
    /\ last' = Did("delete", selectedPage, selectedId, 0, Zero, "", TRUE)
    /\ UNCHANGED <<generationJobs, generatedImages, isGenerating, pending,
                   gen, pageInfos, selectedPage, spreadIndex, drag, nextId>>

handleDeletePanelParent ==
    /\ Tick
    /\ selectedNode # Null
    /\ IF parentNode = Null \/ Len(parentNode.children) <= 1
       THEN /\ last' = Did("delete", selectedPage, selectedId, 0, Zero, "", FALSE)
            /\ UNCHANGED <<pages, history, historyIndex, selectedId>>
       ELSE /\ Commit(updatePage(selectedPage,
                                 LAMBDA prev : removeNode(prev, parentNode.id)))
            /\ selectedId' = NoId
            /\ last' = Did("delete", selectedPage, selectedId, 0, Zero, "", TRUE)
    /\ UNCHANGED <<generationJobs, generatedImages, isGenerating, pending,
                   gen, pageInfos, selectedPage, spreadIndex, drag, nextId>>

handleDeletePanel ==
    /\ Tick
    /\ selectedNode # Null
    /\ IF parentNode = Null \/ Len(parentNode.children) <= 1
       THEN /\ last' = Did("delete", selectedPage, selectedId, 0, Zero, "", FALSE)
            /\ UNCHANGED <<pages, history, historyIndex, selectedId>>
       ELSE /\ Commit(updatePage(selectedPage,
                                 LAMBDA prev : removeNode(prev, selectedNode.id)))
            /\ selectedId' = NoId
            /\ last' = Did("delete", selectedPage, selectedId, 0, Zero, "", TRUE)
    /\ UNCHANGED <<generationJobs, generatedImages, isGenerating, pending,
                   gen, pageInfos, selectedPage, spreadIndex, drag, nextId>>

handleDuplicatePanelOfParent ==
    /\ Tick
    /\ selectedNode # Null
    /\ Commit(updatePage(selectedPage,
                         LAMBDA prev : duplicateNodeInParent(prev, parentNode.id, nextId)))
    /\ nextId' = nextId + NodeCount(selectedNode)
    /\ last' = Did("duplicate", selectedPage, selectedId, 0, Zero, "", TRUE)
    /\ UNCHANGED <<generationJobs, generatedImages, isGenerating, pending,
                   gen, pageInfos, selectedPage, selectedId, spreadIndex, drag>>

handleDuplicatePanelReusedIds ==
    /\ Tick
    /\ selectedNode # Null
    /\ Commit(updatePage(selectedPage,
                         LAMBDA prev : duplicateNodeInParent(prev, selectedNode.id,
                                                             selectedNode.id)))
    /\ nextId' = nextId + NodeCount(selectedNode)
    /\ last' = Did("duplicate", selectedPage, selectedId, 0, Zero, "", TRUE)
    /\ UNCHANGED <<generationJobs, generatedImages, isGenerating, pending,
                   gen, pageInfos, selectedPage, selectedId, spreadIndex, drag>>

handleDuplicatePanel ==
    /\ Tick
    /\ selectedNode # Null
    /\ Commit(updatePage(selectedPage,
                         LAMBDA prev : duplicateNodeInParent(prev, selectedNode.id, nextId)))
    /\ nextId' = nextId + NodeCount(selectedNode)
    /\ last' = Did("duplicate", selectedPage, selectedId, 0, Zero, "", TRUE)
    /\ UNCHANGED <<generationJobs, generatedImages, isGenerating, pending,
                   gen, pageInfos, selectedPage, selectedId, spreadIndex, drag>>

handleTextPropsChange(updates) ==
    /\ Tick
    /\ selectedNode # Null /\ selectedNode.kind = "leaf"
    /\ Commit(updatePage(selectedPage,
          LAMBDA prev : updateNode(prev, selectedNode.id,
                                   [t |-> "text", updates |-> updates])))
    /\ last' = Did("text", selectedPage, selectedId, 0, Zero, "", TRUE)
    /\ UNCHANGED <<generationJobs, generatedImages, isGenerating, pending,
                   gen, pageInfos, selectedPage, selectedId, spreadIndex, drag, nextId>>

\* SplitInspector onChange with the updater of the size slider of child i
SplitInspectorSize(i, value) ==
    /\ Tick
    /\ selectedNode # Null /\ selectedNode.kind = "split"
    /\ i \in 0..(Len(selectedNode.sizes) - 1)
    /\ \A k \in 1..Len(selectedNode.sizes) : selectedNode.sizes[k].d <= MaxDen
    /\ Commit(updatePage(selectedPage,
          LAMBDA prev : updateNode(prev, selectedNode.id,
                                   [t |-> "slider", index |-> i, value |-> value])))
    /\ last' = Did("slider", selectedPage, selectedId, i, value, "", TRUE)
    /\ UNCHANGED <<generationJobs, generatedImages, isGenerating, pending,
                   gen, pageInfos, selectedPage, selectedId, spreadIndex, drag, nextId>>

\* SplitInspector onChange with the updater of the direction select
SplitInspectorDirection(value) ==
    /\ Tick
    /\ selectedNode # Null /\ selectedNode.kind = "split"
    /\ Commit(updatePage(selectedPage,
          LAMBDA prev : updateNode(prev, selectedNode.id,
                                   [t |-> "direction", value |-> value])))
    /\ last' = Did("direction", selectedPage, selectedId, 0, Zero, value, TRUE)
    /\ UNCHANGED <<generationJobs, generatedImages, isGenerating, pending,
                   gen, pageInfos, selectedPage, selectedId, spreadIndex, drag, nextId>>

----------------------------------------------------------------------------
(* Drag resize: SplitView.onMouseDown, onMove and onUp.  The handlers      *)
(* registered at mouse-down keep the page, the node id and the divider     *)
(* index of that moment until mouse-up.                                    *)

onMouseDown(p, id, i) ==
    /\ Tick
    /\ ~drag.active
    /\ p \in SpreadPages
    /\ \E n \in SplitNodes(pages[p + 1]) :
          n.id = id /\ i \in 0..(Len(n.children) - 2)
    /\ drag' = [active |-> TRUE, page |-> p, id |-> id, index |-> i,
                sizes |-> findNode(pages[p + 1], id).sizes, moved |-> FALSE,
                history |-> history, historyIndex |-> historyIndex]
    /\ last' = Did("mousedown", p, id, i, Zero, "", TRUE)
    /\ UNCHANGED <<generationJobs, generatedImages, isGenerating, pending,
                   gen, pages, pageInfos, history, historyIndex, selectedPage, selectedId,
                   spreadIndex, nextId>>

\* onMove -> onResize(node.id, i, frac), the onResize of the render in which
\* the mouse button went down
onMove(frac) ==
    /\ Tick
    /\ drag.active
    /\ CommitFrom(drag, updatePage(drag.page,
          LAMBDA prev : updateNode(prev, drag.id,
                                   [t |-> "resize", index |-> drag.index, delta |-> frac])))
    /\ drag' = [drag EXCEPT !.moved = TRUE]
    /\ last' = Did("resize", drag.page, drag.id, drag.index, frac, "", TRUE)
    /\ UNCHANGED <<generationJobs, generatedImages, isGenerating, pending,
                   gen, pageInfos, selectedPage, selectedId, spreadIndex, nextId>>

onUp ==
    /\ Tick
    /\ drag.active
    /\ drag' = NoDrag
    /\ last' = [Did("mouseup", drag.page, drag.id, drag.index, Zero, "", TRUE) EXCEPT
                  !.u = [t |-> "gesture", sizes |-> drag.sizes, moved |-> drag.moved]]
    /\ UNCHANGED <<generationJobs, generatedImages, isGenerating, pending,
                   gen, pages, pageInfos, history, historyIndex, selectedPage, selectedId,
                   spreadIndex, nextId>>

----------------------------------------------------------------------------
(* AI generation.  A request captures, at the click, the selected page,    *)
(* the selected leaf and the saveToHistory of that render (with its        *)
(* history and historyIndex); the response is handled by that closure.     *)
(* One request is in flight at a time.                                     *)

GeneratedTexts == {"Then the storm broke."}

storyPrompts == {"A whispered secret changes everything"}

ImageUrls == {"https://img/1.png"}

Request(kind) ==
    [active |-> TRUE, kind |-> kind, page |-> selectedPage, id |-> selectedNode.id,
     history |-> history, historyIndex |-> historyIndex,
     info |-> IF selectedPage < Len(pageInfos) THEN pageInfos[selectedPage + 1].id ELSE 0]

onGenerateText ==
    /\ Tick
    /\ ~gen.active
    /\ selectedNode # Null /\ selectedNode.kind = "leaf"
    /\ gen' = Request("text")
    /\ last' = Did("generateText", selectedPage, selectedId, 0, Zero, "", TRUE)
    /\ UNCHANGED <<generationJobs, generatedImages, isGenerating, pending,
                   pages, pageInfos, history, historyIndex, selectedPage, selectedId,
                   spreadIndex, drag, nextId>>

\* the service answered with a text
onGenerateTextThen(text) ==
    /\ Tick
    /\ gen.active /\ gen.kind = "text"
    /\ CommitFrom(gen, updatePage(gen.page,
          LAMBDA prev : updateNode(prev, gen.id, [t |-> "append", line |-> text])))
    /\ gen' = NoGen
    /\ last' = Did("textDone", gen.page, gen.id, gen.info, Zero, text, TRUE)
    /\ UNCHANGED <<generationJobs, generatedImages, isGenerating, pending,
                   pageInfos, selectedPage, selectedId, spreadIndex, drag, nextId>>

\* the service failed or answered without a text: the catch block
onGenerateTextCatch(randomPrompt) ==
    /\ Tick
    /\ gen.active /\ gen.kind = "text"
    /\ CommitFrom(gen, updatePage(gen.page,
          LAMBDA prev : updateNode(prev, gen.id, [t |-> "append", line |-> randomPrompt])))
    /\ gen' = NoGen
    /\ last' = Did("textFailed", gen.page, gen.id, gen.info, Zero, randomPrompt, TRUE)
    /\ UNCHANGED <<generationJobs, generatedImages, isGenerating, pending,
                   pageInfos, selectedPage, selectedId, spreadIndex, drag, nextId>>

onGenerateImage ==
    /\ Tick
    /\ ~gen.active
    /\ selectedNode # Null /\ selectedNode.kind = "leaf"
    /\ gen' = Request("image")
    /\ last' = Did("generateImage", selectedPage, selectedId, 0, Zero, "", TRUE)
    /\ UNCHANGED <<generationJobs, generatedImages, isGenerating, pending,
                   pages, pageInfos, history, historyIndex, selectedPage, selectedId,
                   spreadIndex, drag, nextId>>

onGenerateImageThen(url) ==
    /\ Tick
    /\ gen.active /\ gen.kind = "image"
    /\ CommitFrom(gen, updatePage(gen.page,
          LAMBDA prev : updateNode(prev, gen.id, [t |-> "image", url |-> url])))
    /\ gen' = NoGen
    /\ last' = Did("imageDone", gen.page, gen.id, gen.info, Zero, url, TRUE)
    /\ UNCHANGED <<generationJobs, generatedImages, isGenerating, pending,
                   pageInfos, selectedPage, selectedId, spreadIndex, drag, nextId>>

\* the service failed or answered without an image: catch and finally
onGenerateImageCatch ==
    /\ Tick
    /\ gen.active /\ gen.kind = "image"
    /\ gen' = NoGen
    /\ last' = Did("imageFailed", gen.page, gen.id, gen.info, Zero, "", TRUE)
    /\ UNCHANGED <<generationJobs, generatedImages, isGenerating, pending,
                   pages, pageInfos, history, historyIndex, selectedPage, selectedId,
                   spreadIndex, drag, nextId>>

----------------------------------------------------------------------------
(* Presets and pages *)

\* LayoutPresetsSimple: onApplyPreset(preset.root)
applyPreset(name) ==
    /\ Tick
    /\ Commit(updatePage(selectedPage, LAMBDA prev : JsonClone(PresetRoot(name))))
    /\ selectedId' = NoId
    /\ last' = Did("preset", selectedPage, NoId, 0, Zero, name, TRUE)
    /\ UNCHANGED <<generationJobs, generatedImages, isGenerating, pending,
                   gen, pageInfos, selectedPage, spreadIndex, drag, nextId>>

DefaultPresetName == "Full"

addPage ==
    /\ Tick
    /\ Len(pages) < MaxPages
    /\ pages' = Append(pages, getDefaultPreset(DefaultPresetName, nextId))
    /\ pageInfos' = Append(pageInfos, PageInfo(nextId + 10, Len(pageInfos) + 1, 0))
    /\ nextId' = nextId + 11
    /\ last' = Did("addPage", Len(pages), NoId, 0, Zero, "", TRUE)
    /\ UNCHANGED <<generationJobs, generatedImages, isGenerating, pending,
                   gen, history, historyIndex, selectedPage, selectedId, spreadIndex, drag>>

deletePage(index) ==
    /\ Tick
    /\ index \in 0..(Len(pages) - 1)
    /\ Len(pages) > 1
    /\ pages' = RemoveAt(pages, index + 1)
    /\ pageInfos' = IF index < Len(pageInfos)
                    THEN RemoveAt(pageInfos, index + 1) ELSE pageInfos
    /\ selectedPage' = IF selectedPage >= Len(pages) - 1
                       THEN (IF Len(pages) - 2 > 0 THEN Len(pages) - 2 ELSE 0)
                       ELSE selectedPage
    /\ last' = Did("deletePage", index, NoId, 0, Zero, "", TRUE)
    /\ UNCHANGED <<generationJobs, generatedImages, isGenerating, pending,
                   gen, history, historyIndex, selectedId, spreadIndex, drag, nextId>>

duplicatePage(index) ==
    /\ Tick
    /\ Len(pages) < MaxPages
    /\ index \in 0..(Len(pages) - 1) /\ index < Len(pageInfos)
    /\ pages' = InsertAfter(pages, index + 1, JsonClone(pages[index + 1]))
    /\ pageInfos' = InsertAfter(pageInfos, index + 1,
                       [id |-> nextId,
                        name |-> [pageInfos[index + 1].name EXCEPT !.copies = @ + 1],
                        hidden |-> pageInfos[index + 1].hidden])
    /\ nextId' = nextId + 1
    /\ last' = Did("duplicatePage", index, NoId, 0, Zero, "", TRUE)
    /\ UNCHANGED <<generationJobs, generatedImages, isGenerating, pending,
                   gen, history, historyIndex, selectedPage, selectedId, spreadIndex, drag>>

----------------------------------------------------------------------------
(* History *)

undo ==
    /\ Tick
    /\ historyIndex > 0
    /\ historyIndex' = historyIndex - 1
    /\ pages' = history[historyIndex]
    /\ last' = Did("undo", 0, NoId, 0, Zero, "", TRUE)
    /\ UNCHANGED <<generationJobs, generatedImages, isGenerating, pending,
                   gen, pageInfos, history, selectedPage, selectedId, spreadIndex, drag, nextId>>

redo ==
    /\ Tick
    /\ historyIndex < Len(history) - 1
    /\ historyIndex' = historyIndex + 1
    /\ pages' = history[historyIndex + 2]
    /\ last' = Did("redo", 0, NoId, 0, Zero, "", TRUE)
    /\ UNCHANGED <<generationJobs, generatedImages, isGenerating, pending,
                   gen, pageInfos, history, selectedPage, selectedId, spreadIndex, drag, nextId>>

----------------------------------------------------------------------------
(* The editor *)

Next ==
    /\ steps < MaxSteps
    /\ \/ \E p \in SpreadPages : \E id \in LeafIds(pages[p + 1]) : OnSelect(p, id)
       \/ \E id \in IF selectedPage < Len(pages) THEN NodeIds(pages[selectedPage + 1]) ELSE {} :
             OnSelectNode(id)
       \/ \E i \in 0..(Len(pages) - 1) : OnSelectPage(i)
       \/ \E d \in Directions, c \in SplitCounts : handleSplitPanel(d, c)
       \/ handleMergePanel
       \/ handleDeletePanel
       \/ handleDuplicatePanel
       \/ \E u \in TextUpdates : handleTextPropsChange(u)
       \/ \E i \in 0..(IF selectedNode.kind = "split" THEN Len(selectedNode.sizes) - 1 ELSE -1),
             v \in SliderValues : SplitInspectorSize(i, v)
       \/ \E d \in Directions : SplitInspectorDirection(d)
       \/ \E p \in SpreadPages : \E n \in SplitNodes(pages[p + 1]) :
             \E i \in 0..(Len(n.children) - 2) : onMouseDown(p, n.id, i)
       \/ \E f \in Deltas : onMove(f)
       \/ onUp
       \/ \E name \in EditorPresets : applyPreset(name)
       \/ addPage
       \/ \E i \in 0..(Len(pages) - 1) : deletePage(i)
       \/ \E i \in 0..(Len(pages) - 1) : duplicatePage(i)
       \/ undo
       \/ redo
       \/ onGenerateText
       \/ \E text \in GeneratedTexts : onGenerateTextThen(text)
       \/ \E prompt \in storyPrompts : onGenerateTextCatch(prompt)
       \/ onGenerateImage
       \/ \E url \in ImageUrls : onGenerateImageThen(url)
       \/ onGenerateImageCatch

Spec == Init /\ [][Next]_vars

----------------------------------------------------------------------------
(* The tree engine on its own: one tree, built by any preset, and any      *)
(* sequence of calls of the tree operations on it.                         *)

InitEngine ==
    \E name \in PresetNames :
        InitWith(PRESETS(name, FirstUid), PRESETS(name, FirstUid + 10))

EngineCall(newTree, used, record) ==
    /\ Tick
    /\ pages' = <<newTree>>
    /\ nextId' = nextId + used
    /\ last' = record
    /\ UNCHANGED <<generationJobs, generatedImages, isGenerating, pending,
                   gen, pageInfos, history, historyIndex, selectedPage, selectedId,
                   spreadIndex, drag>>

applyResizeCall(id, index, delta) ==
    EngineCall(updateNode(pages[1], id, [t |-> "resize", index |-> index, delta |-> delta]),
               0, Did("resize", 0, id, index, delta, "", TRUE))

removeNodeCall(id) ==
    EngineCall(removeNode(pages[1], id), 0, Did("remove", 0, id, 0, Zero, "", TRUE))

duplicateNodeCall(id) ==
    EngineCall(duplicateNodeInParent(pages[1], id, nextId),
               NodeCount(pages[1]), Did("duplicate", 0, id, 0, Zero, "", TRUE))

updateNodeCall(id, u) ==
    EngineCall(updateNode(pages[1], id, u), 0,
               [Did("update", 0, id, 0, Zero, "", TRUE) EXCEPT
                   !.u = u, !.calls = UpdaterCalls(pages[1], id)])

\* the identifiers of the tree and one identifier that is in no node of it
EngineIds == NodeIds(pages[1]) \cup {nextId}

SplitIds(node) == {m.id : m \in SplitNodes(node)}

EngineUpdaters(id) ==
    {[t |-> "text", updates |-> [text |-> "Hello"]]}
    \cup (IF id \in LeafIds(pages[1]) THEN {}
          ELSE {[t |-> "direction", value |-> "vertical"]})

NextEngine ==
    /\ steps < MaxEngineSteps
    /\ \/ \E n \in SplitNodes(pages[1]) : \E i \in 0..(Len(n.children) - 2), d \in Deltas :
             applyResizeCall(n.id, i, d)
       \/ \E id \in EngineIds : removeNodeCall(id)
       \/ \E id \in EngineIds : duplicateNodeCall(id)
       \/ \E id \in EngineIds : \E u \in EngineUpdaters(id) : updateNodeCall(id, u)

SpecEngine == InitEngine /\ [][NextEngine]_vars

----------------------------------------------------------------------------
(* Resizing on its own: a page built by any preset, then any sequence of   *)
(* SplitInspector size changes and drag resizes.                           *)

InitResize ==
    \E name \in PresetNames :
        InitWith(PRESETS(name, FirstUid), PRESETS(name, FirstUid + 10))

NextResize ==
    /\ steps < MaxResizeSteps
    /\ \/ \E id \in SplitIds(pages[1]) : OnSelectNode(id)
       \/ \E i \in 0..(IF selectedNode.kind = "split" THEN Len(selectedNode.sizes) - 1 ELSE -1),
             v \in SliderValues : SplitInspectorSize(i, v)
       \/ \E n \in SplitNodes(pages[1]) :
             \E i \in 0..(Len(n.children) - 2) : onMouseDown(0, n.id, i)
       \/ \E f \in Deltas : onMove(f)
       \/ onUp

SpecResize == InitResize /\ [][NextResize]_vars

----------------------------------------------------------------------------
(* One page on its own: a page built by a preset, then any sequence of     *)
(* panel operations, inspector changes, drag resizes and preset            *)
(* replacements on it.                                                     *)

InitPanel ==
    \E name \in EditorPresets :
        InitWith(getDefaultPreset(name, FirstUid), getDefaultPreset(name, FirstUid + 10))

NextPanel ==
    /\ steps < MaxPanelSteps
    /\ \/ \E id \in LeafIds(pages[1]) : OnSelect(0, id)
       \/ \E id \in SplitIds(pages[1]) : OnSelectNode(id)
       \/ \E d \in Directions, c \in SplitCounts : handleSplitPanel(d, c)
       \/ handleMergePanel
       \/ handleDeletePanel
       \/ handleDuplicatePanel
       \/ \E u \in TextUpdates : handleTextPropsChange(u)
       \/ \E i \in 0..(IF selectedNode.kind = "split" THEN Len(selectedNode.sizes) - 1 ELSE -1),
             v \in SliderValues : SplitInspectorSize(i, v)
       \/ \E d \in Directions : SplitInspectorDirection(d)
       \/ \E n \in SplitNodes(pages[1]) :
             \E i \in 0..(Len(n.children) - 2) : onMouseDown(0, n.id, i)
       \/ \E f \in Deltas : onMove(f)
       \/ onUp
       \/ \E name \in EditorPresets : applyPreset(name)

SpecPanel == InitPanel /\ [][NextPanel]_vars

----------------------------------------------------------------------------
(* Pages and history: content edits, preset replacement, the page          *)
(* operations, undo and redo.                                              *)

InitHistory ==
    \E name \in EditorPresets :
        InitWith(getDefaultPreset(name, FirstUid), getDefaultPreset(name, FirstUid + 10))

NextHistory ==
    /\ steps < MaxHistorySteps
    /\ \/ \E p \in SpreadPages : \E id \in LeafIds(pages[p + 1]) : OnSelect(p, id)
       \/ \E i \in 0..(Len(pages) - 1) : OnSelectPage(i)
       \/ \E u \in TextUpdates : handleTextPropsChange(u)
       \/ \E name \in EditorPresets : applyPreset(name)
       \/ addPage
       \/ \E i \in 0..(Len(pages) - 1) : deletePage(i)
       \/ \E i \in 0..(Len(pages) - 1) : duplicatePage(i)
       \/ undo
       \/ redo

SpecHistory == InitHistory /\ [][NextHistory]_vars

----------------------------------------------------------------------------
(* Generation requests in flight: a request is started on the selected     *)
(* leaf and answered later, while panels are edited or deleted and pages    *)
(* are added, duplicated and deleted in between.                            *)

InitGen ==
    \E name \in {"Two Col"} :
        InitWith(getDefaultPreset(name, FirstUid), getDefaultPreset(name, FirstUid + 10))

NextGen ==
    /\ steps < MaxGenSteps
    /\ \/ \E p \in SpreadPages : \E id \in LeafIds(pages[p + 1]) : OnSelect(p, id)
       \/ \E u \in TextUpdates : handleTextPropsChange(u)
       \/ handleDeletePanel
       \/ addPage
       \/ \E i \in 0..(Len(pages) - 1) : deletePage(i)
       \/ \E i \in 0..(Len(pages) - 1) : duplicatePage(i)
       \/ onGenerateText
       \/ \E text \in GeneratedTexts : onGenerateTextThen(text)
       \/ \E randomPrompt \in storyPrompts : onGenerateTextCatch(randomPrompt)
       \/ onGenerateImage
       \/ \E url \in ImageUrls : onGenerateImageThen(url)
       \/ onGenerateImageCatch

SpecGen == InitGen /\ [][NextGen]_vars

----------------------------------------------------------------------------
(* Drag gestures and undo: dividers are dragged on the pages of the spread, *)
(* sizes are set with the inspector slider, pages are duplicated, and the   *)
(* last step is undone.                                                     *)

InitDrag ==
    \E name \in {"Two Col", "Three Col"} :
        InitWith(getDefaultPreset(name, FirstUid), getDefaultPreset(name, FirstUid + 10))

NextDrag ==
    /\ steps < MaxDragSteps
    /\ \/ \E id \in SplitIds(pages[1]) : OnSelectNode(id)
       \/ \E i \in 0..(IF selectedNode.kind = "split" THEN Len(selectedNode.sizes) - 1 ELSE -1),
             v \in SliderValues : SplitInspectorSize(i, v)
       \/ \E i \in 0..(Len(pages) - 1) : duplicatePage(i)
       \/ \E p \in SpreadPages : \E n \in SplitNodes(pages[p + 1]) :
             \E i \in 0..(Len(n.children) - 2) : onMouseDown(p, n.id, i)
       \/ \E f \in Deltas : onMove(f)
       \/ onUp
       \/ undo

SpecDrag == InitDrag /\ [][NextDrag]_vars

----------------------------------------------------------------------------
(* The start page's generation queue.  handleGenerate adds a job and an    *)
(* image entry and awaits the image service; handleCancelJob marks a job   *)
(* canceled, after awaiting the service's cancel call when the job has a   *)
(* predictionId.  pending holds the service calls that are awaited.        *)

PredictionOf(jobId) == jobId + 1000

SetJob(jobs, id, status, predictionId, imageUrl) ==
    [k \in 1..Len(jobs) |->
        IF jobs[k].id = id
        THEN [jobs[k] EXCEPT !.status = status,
                             !.predictionId = IF predictionId = 0 THEN @ ELSE predictionId,
                             !.imageUrl = IF imageUrl = "" THEN @ ELSE imageUrl]
        ELSE jobs[k]]

SelectJobs(jobs, Keep(_)) ==
    LET F[k \in 0..Len(jobs)] ==
            IF k = 0 THEN <<>>
            ELSE IF Keep(jobs[k]) THEN Append(F[k - 1], jobs[k]) ELSE F[k - 1]
    IN  F[Len(jobs)]

\* handleGenerate up to the await of replicateService.generateImage
handleGenerate ==
    /\ Tick
    /\ Len(generationJobs) < MaxJobs
    /\ LET jobId == nextId
           imageId == nextId + 1
       IN  /\ generationJobs' =
                 <<[id |-> jobId, status |-> "generating", predictionId |-> 0,
                    imageUrl |-> ""]>> \o generationJobs
           /\ generatedImages' =
                 <<[id |-> imageId, status |-> "generating", predictionId |-> 0,
                    imageUrl |-> ""]>> \o generatedImages
           /\ pending' = pending \cup {[kind |-> "generate", job |-> jobId, image |-> imageId]}
           /\ last' = Did("generate", 0, jobId, 0, Zero, "", TRUE)
    /\ isGenerating' = TRUE
    /\ nextId' = nextId + 2
    /\ UNCHANGED <<pages, pageInfos, history, historyIndex, selectedPage, selectedId,
                   spreadIndex, drag, gen>>

\* the image service answered: the rest of the try block
handleGenerateThen(call, url) ==
    /\ Tick
    /\ call \in pending /\ call.kind = "generate"
    /\ generatedImages' = SetJob(generatedImages, call.image, "completed",
                                 PredictionOf(call.job), url)
    /\ generationJobs' = SetJob(generationJobs, call.job, "completed",
                                PredictionOf(call.job), url)
    /\ isGenerating' = FALSE
    /\ pending' = pending \ {call}
    /\ last' = Did("generated", 0, call.job, 0, Zero, url, TRUE)
    /\ UNCHANGED <<pages, pageInfos, history, historyIndex, selectedPage, selectedId,
                   spreadIndex, drag, gen, nextId>>

\* the image service failed: the catch block
handleGenerateCatch(call) ==
    /\ Tick
    /\ call \in pending /\ call.kind = "generate"
    /\ generatedImages' = SetJob(generatedImages, call.image, "failed", 0, "")
    /\ generationJobs' = SetJob(generationJobs, call.job, "failed", 0, "")
    /\ isGenerating' = FALSE
    /\ pending' = pending \ {call}
    /\ last' = Did("generateFailed", 0, call.job, 0, Zero, "", TRUE)
    /\ UNCHANGED <<pages, pageInfos, history, historyIndex, selectedPage, selectedId,
                   spreadIndex, drag, gen, nextId>>

\* the two setState calls that end handleCancelJob; no image has the id of
\* a job, so generatedImages keeps its entries
SetCanceled(jobId) ==
    /\ generationJobs' = SetJob(generationJobs, jobId, "canceled", 0, "")
    /\ generatedImages' = SetJob(generatedImages, jobId, "canceled", 0, "")

\* handleCancelJob: with a predictionId up to the await of cancelGeneration,
\* without one to its end
handleCancelJob(jobId) ==
    /\ Tick
    /\ [kind |-> "cancel", job |-> jobId, image |-> 0] \notin pending
    /\ IF \E k \in 1..Len(generationJobs) :
             generationJobs[k].id = jobId /\ generationJobs[k].predictionId # 0
       THEN /\ pending' = pending \cup {[kind |-> "cancel", job |-> jobId, image |-> 0]}
            /\ UNCHANGED <<generationJobs, generatedImages>>
       ELSE /\ SetCanceled(jobId)
            /\ UNCHANGED pending
    /\ last' = Did("cancel", 0, jobId, 0, Zero, "", TRUE)
    /\ UNCHANGED <<pages, pageInfos, history, historyIndex, selectedPage, selectedId,
                   spreadIndex, drag, gen, isGenerating, nextId>>

\* cancelGeneration returned or threw: the rest of handleCancelJob
handleCancelJobThen(call) ==
    /\ Tick
    /\ call \in pending /\ call.kind = "cancel"
    /\ SetCanceled(call.job)
    /\ pending' = pending \ {call}
    /\ last' = Did("canceled", 0, call.job, 0, Zero, "", TRUE)
    /\ UNCHANGED <<pages, pageInfos, history, historyIndex, selectedPage, selectedId,
                   spreadIndex, drag, gen, isGenerating, nextId>>

handleRemoveJob(jobId) ==
    /\ Tick
    /\ generationJobs' = SelectJobs(generationJobs, LAMBDA j : j.id # jobId)
    /\ last' = Did("removeJob", 0, jobId, 0, Zero, "", TRUE)
    /\ UNCHANGED <<pages, pageInfos, history, historyIndex, selectedPage, selectedId,
                   spreadIndex, drag, gen, generatedImages, isGenerating, pending, nextId>>

JobIds == {generationJobs[k].id : k \in 1..Len(generationJobs)}

InitJobs == InitWith(PRESETS(DefaultPresetName, FirstUid), PRESETS(DefaultPresetName, FirstUid + 10))

NextJobs ==
    /\ steps < MaxJobSteps
    /\ \/ handleGenerate
       \/ \E call \in pending, url \in ImageUrls : handleGenerateThen(call, url)
       \/ \E call \in pending : handleGenerateCatch(call)
       \/ \E jobId \in JobIds : handleCancelJob(jobId)
       \/ \E call \in pending : handleCancelJobThen(call)
       \/ \E jobId \in JobIds : handleRemoveJob(jobId)

SpecJobs == InitJobs /\ [][NextJobs]_vars

----------------------------------------------------------------------------
(* Keyboard shortcuts: useKeyboardShortcuts.handleKeyDown as a function of  *)
(* the key event; its value is the sequence of callbacks it invokes.        *)

Shortcut(key, ctrl, shift, describes) ==
    [key |-> key, ctrl |-> ctrl, shift |-> shift, alt |-> FALSE, describes |-> describes]

\* the entries, each with the callback its description names
SHORTCUT_DEFINITIONS ==
    { Shortcut("z", TRUE, FALSE, "onUndo"),
      Shortcut("z", TRUE, TRUE, "onRedo"),
      Shortcut("y", TRUE, FALSE, "onRedo"),
      Shortcut("=", TRUE, FALSE, "onZoomIn"),
      Shortcut("-", TRUE, FALSE, "onZoomOut"),
      Shortcut("0", TRUE, FALSE, "onZoomReset"),
      Shortcut("h", TRUE, FALSE, "onSplitHorizontal"),
      Shortcut("j", TRUE, FALSE, "onSplitVertical"),
      Shortcut("d", TRUE, FALSE, "onDuplicate"),
      Shortcut("Delete", FALSE, FALSE, "onDelete"),
      Shortcut("Backspace", FALSE, FALSE, "onDelete"),
      Shortcut("s", TRUE, FALSE, "onSave"),
      Shortcut("n", TRUE, FALSE, "onNewPage"),
      Shortcut("Escape", FALSE, FALSE, "onDeselect") }

handleKeyDownUndoAnyShift(e, enabled) ==
    IF ~enabled THEN <<>>
    ELSE IF e.tagName = "INPUT" \/ e.tagName = "TEXTAREA" \/ e.isContentEditable THEN <<>>
    ELSE LET ctrl  == e.ctrlKey \/ e.metaKey
             shift == e.shiftKey
         IN  IF ctrl /\ e.key = "z" THEN <<"onUndo">>
             ELSE IF (ctrl /\ shift /\ e.key = "z") \/ (ctrl /\ e.key = "y") THEN <<"onRedo">>
             ELSE IF ctrl /\ (e.key = "=" \/ e.key = "+") THEN <<"onZoomIn">>
             ELSE IF ctrl /\ e.key = "-" THEN <<"onZoomOut">>
             ELSE IF ctrl /\ e.key = "0" THEN <<"onZoomReset">>
             ELSE IF ctrl /\ e.key = "h" THEN <<"onSplitHorizontal">>
             ELSE IF ctrl /\ e.key = "j" THEN <<"onSplitVertical">>
             ELSE IF ctrl /\ e.key = "d" THEN <<"onDuplicate">>
             ELSE IF e.key = "Delete" \/ e.key = "Backspace" THEN <<"onDelete">>
             ELSE IF ctrl /\ e.key = "s" THEN <<"onSave">>
             ELSE IF ctrl /\ e.key = "n" THEN <<"onNewPage">>
             ELSE IF e.key = "Escape" THEN <<"onDeselect">>
             ELSE <<>>

\* handleKeyDown without the TEXTAREA guard
handleKeyDownInTextarea(e, enabled) ==
    IF ~enabled THEN <<>>
    ELSE IF e.tagName = "INPUT" \/ e.isContentEditable THEN <<>>
    ELSE LET ctrl  == e.ctrlKey \/ e.metaKey
             shift == e.shiftKey
         IN  IF ctrl /\ ~shift /\ e.key = "z" THEN <<"onUndo">>
             ELSE IF (ctrl /\ shift /\ e.key = "z") \/ (ctrl /\ e.key = "y") THEN <<"onRedo">>
             ELSE IF ctrl /\ (e.key = "=" \/ e.key = "+") THEN <<"onZoomIn">>
             ELSE IF ctrl /\ e.key = "-" THEN <<"onZoomOut">>
             ELSE IF ctrl /\ e.key = "0" THEN <<"onZoomReset">>
             ELSE IF ctrl /\ e.key = "h" THEN <<"onSplitHorizontal">>
             ELSE IF ctrl /\ e.key = "j" THEN <<"onSplitVertical">>
             ELSE IF ctrl /\ e.key = "d" THEN <<"onDuplicate">>
             ELSE IF e.key = "Delete" \/ e.key = "Backspace" THEN <<"onDelete">>
             ELSE IF ctrl /\ e.key = "s" THEN <<"onSave">>
             ELSE IF ctrl /\ e.key = "n" THEN <<"onNewPage">>
             ELSE IF e.key = "Escape" THEN <<"onDeselect">>
             ELSE <<>>

handleKeyDown(e, enabled) ==
    IF ~enabled THEN <<>>
    ELSE IF e.tagName = "INPUT" \/ e.tagName = "TEXTAREA" \/ e.isContentEditable THEN <<>>
    ELSE LET ctrl  == e.ctrlKey \/ e.metaKey
             shift == e.shiftKey
         IN  IF ctrl /\ ~shift /\ e.key = "z" THEN <<"onUndo">>
             ELSE IF (ctrl /\ shift /\ e.key = "z") \/ (ctrl /\ e.key = "y") THEN <<"onRedo">>
             ELSE IF ctrl /\ (e.key = "=" \/ e.key = "+") THEN <<"onZoomIn">>
             ELSE IF ctrl /\ e.key = "-" THEN <<"onZoomOut">>
             ELSE IF ctrl /\ e.key = "0" THEN <<"onZoomReset">>
             ELSE IF ctrl /\ e.key = "h" THEN <<"onSplitHorizontal">>
             ELSE IF ctrl /\ e.key = "j" THEN <<"onSplitVertical">>
             ELSE IF ctrl /\ e.key = "d" THEN <<"onDuplicate">>
             ELSE IF e.key = "Delete" \/ e.key = "Backspace" THEN <<"onDelete">>
             ELSE IF ctrl /\ e.key = "s" THEN <<"onSave">>
             ELSE IF ctrl /\ e.key = "n" THEN <<"onNewPage">>
             ELSE IF e.key = "Escape" THEN <<"onDeselect">>
             ELSE <<>>

Keys == {"z", "Z", "y", "=", "+", "-", "0", "h", "j", "d", "Delete", "Backspace",
         "s", "n", "Escape", "a", "Enter"}

Targets == {[tagName |-> "BODY", isContentEditable |-> FALSE],
            [tagName |-> "INPUT", isContentEditable |-> FALSE],
            [tagName |-> "TEXTAREA", isContentEditable |-> FALSE],
            [tagName |-> "DIV", isContentEditable |-> TRUE]}

KeyEvents ==
    {[key |-> k, ctrlKey |-> c, metaKey |-> m, shiftKey |-> s, altKey |-> a,
      tagName |-> t.tagName, isContentEditable |-> t.isContentEditable] :
        k \in Keys, c \in BOOLEAN, m \in BOOLEAN, s \in BOOLEAN, a \in BOOLEAN, t \in Targets}

\* one keydown: the event, whether shortcuts are enabled, the callbacks invoked
KeyDown(e, enabled) ==
    /\ Tick
    /\ last' = [Did("keydown", 0, NoId, 0, Zero, e.key, enabled) EXCEPT
                  !.u = [t |-> "key", e |-> e, calls |-> handleKeyDown(e, enabled)]]
    /\ UNCHANGED <<generationJobs, generatedImages, isGenerating, pending,
                   gen, pages, pageInfos, history, historyIndex, selectedPage, selectedId,
                   spreadIndex, drag, nextId>>

InitKeys == InitWith(PRESETS(DefaultPresetName, FirstUid), PRESETS(DefaultPresetName, FirstUid + 10))

NextKeys ==
    /\ steps < MaxKeySteps
    /\ \E e \in KeyEvents, enabled \in BOOLEAN : KeyDown(e, enabled)

SpecKeys == InitKeys /\ [][NextKeys]_vars

----------------------------------------------------------------------------
(* Properties *)

RAbs(a) == [n |-> Abs(a.n), d |-> a.d]

Tolerance == Frac(1, 1000000)

NearlyOne(x) == RLt(RAbs(RSub(x, One)), Tolerance)

\* the page the last operation worked on, before and after it
PrePage == last.pre[last.page + 1]

PostPage == pages[last.page + 1]

HasPages == last.page + 1 \in 1..Len(last.pre) /\ last.page + 1 \in 1..Len(pages)

UniqueIds(node) == Cardinality(NodeIds(node)) = Len(IdList(node))

\* the child indices leading from the root to the node with the given id
RECURSIVE PathOf(_, _)
PathOf(node, id) ==
    IF node.id = id THEN <<>>
    ELSE LET i == CHOOSE k \in 1..Len(node.children) : id \in NodeIds(node.children[k])
         IN  <<i>> \o PathOf(node.children[i], id)

RECURSIVE ReplaceAt(_, _, _)
ReplaceAt(node, path, new) ==
    IF path = <<>> THEN new
    ELSE [node EXCEPT !.children =
            [k \in 1..Len(node.children) |->
                IF k = Head(path) THEN ReplaceAt(node.children[k], Tail(path), new)
                ELSE node.children[k]]]

Clamp(x, lo, hi) ==
    LET capped == IF RLt(hi, x) THEN hi ELSE x
    IN  IF RLt(capped, lo) THEN lo ELSE capped

\* C5: applyResize(n, index, delta) with 0 <= index < sizes.length - 1 sets
\* sizes[index] to clamp(sizes[index] + delta, 0.08, total - 0.08) and
\* sizes[index + 1] to total - sizes[index], total being the sum of the two
\* slots before; other sizes, id, direction and children are unchanged.
C5_ApplyResizeResult ==
    (last.op = "resize" /\ HasPages /\ findNode(PrePage, last.id).kind = "split")
    => LET n == findNode(PrePage, last.id)
           m == findNode(PostPage, last.id)
           i == last.index + 1
           total == RAdd(n.sizes[i], n.sizes[i + 1])
           a == Clamp(RAdd(n.sizes[i], last.arg), Frac(8, 100), RSub(total, Frac(8, 100)))
       IN  /\ Len(m.sizes) = Len(n.sizes)
           /\ m.sizes[i] = a
           /\ m.sizes[i + 1] = RSub(total, a)
           /\ \A k \in 1..Len(n.sizes) : k \notin {i, i + 1} => m.sizes[k] = n.sizes[k]
           /\ m.id = n.id /\ m.direction = n.direction /\ m.children = n.children

C5_Witness ==
    /\ last.op = "resize" /\ last.arg = Frac(-3, 5) /\ last.index = 0
    /\ findNode(PrePage, last.id).sizes = <<Frac(1, 2), Frac(1, 2)>>
    /\ findNode(PostPage, last.id).sizes = <<Frac(8, 100), Frac(92, 100)>>

\* C6: for every SplitNode reachable from the presets by SplitInspector size
\* changes and drag resizes, applyResize leaves neither of the two adjusted
\* slots below the 0.08 floor and no size zero or negative.
C6_ResizeSaturates ==
    (last.op = "resize" /\ HasPages /\ findNode(PostPage, last.id).kind = "split")
    => LET m == findNode(PostPage, last.id)
           i == last.index + 1
       IN  /\ RLe(MinSize, m.sizes[i])
           /\ RLe(MinSize, m.sizes[i + 1])
           /\ \A k \in 1..Len(m.sizes) : RLt(Zero, m.sizes[k])

\* C7: for an id that occurs in no node of T, updateNode(T, id, fn) returns
\* a tree equal to T and never calls fn.
C7_UpdateMissIsNoOp ==
    (last.op = "update" /\ last.id \notin NodeIds(last.pre[1]))
    => (pages[1] = last.pre[1] /\ last.calls = 0)

C7_Witness ==
    /\ last.op = "update" /\ last.id \notin NodeIds(last.pre[1])
    /\ last.u.t = "text" /\ steps = 2

\* C8: for a tree T with unique ids that contains the id, updateNode(T, id,
\* updater) is T with exactly that node replaced by updater(node), and the
\* updater is applied exactly once.
C8_UpdateReplacesTarget ==
    (last.op = "update" /\ last.id \in NodeIds(last.pre[1]) /\ UniqueIds(last.pre[1]))
    => /\ pages[1] = ReplaceAt(last.pre[1], PathOf(last.pre[1], last.id),
                               ApplyUpdater(last.u, findNode(last.pre[1], last.id)))
       /\ last.calls = 1

C8_Witness ==
    /\ last.op = "update" /\ last.u.t = "text" /\ last.id \in NodeIds(last.pre[1])
    /\ Len(PathOf(last.pre[1], last.id)) = 2
    /\ findNode(pages[1], last.id).textProps.text = "Hello"
    /\ findNode(last.pre[1], last.id).textProps.text = DefaultText


InFloorRange(x) == RLe(Frac(8, 100), x) /\ RLe(x, RSub(One, Frac(8, 100)))

InRange(node) ==
    \A n \in SplitNodes(node) :
        IF Len(n.sizes) = 1 THEN n.sizes[1] = One
        ELSE \A k \in 1..Len(n.sizes) : InFloorRange(n.sizes[k])

Sound(node) ==
    /\ InRange(node)
    /\ \A n \in SplitNodes(node) :
          Len(n.sizes) = Len(n.children) /\ NearlyOne(SumSizes(n.sizes))

RangeKeepingOps == {"resize", "split", "delete", "merge", "preset"}

C3_TreeShape ==
    \A p \in 1..Len(pages) :
        /\ pages[p].kind = "split"
        /\ \A n \in SplitNodes(pages[p]) :
              Len(n.children) >= 1 /\ Len(n.children) = Len(n.sizes)

\* C4: with fresh uids, no identifier occurs twice within a page tree, and
\* every node that duplicateNodeInParent adds carries an identifier that no
\* node of the tree before it has.
C4_UniqueIds ==
    /\ \A p \in 1..Len(pages) : UniqueIds(pages[p])
    /\ (last.op = "duplicate" /\ HasPages)
       => Len(IdList(PostPage)) - Len(IdList(PrePage))
            = Cardinality(NodeIds(PostPage) \ NodeIds(PrePage))

C4_Witness ==
    /\ last.op = "duplicate" /\ HasPages
    /\ Len(IdList(PostPage)) >= Len(IdList(PrePage)) + 3
    /\ \E q \in NodeIds(PrePage) : q >= FirstUid + 21

WellFormed(node) ==
    \A n \in SplitNodes(node) :
        /\ Len(n.sizes) = Len(n.children)
        /\ \A k \in 1..Len(n.sizes) : IsFinite(n.sizes[k]) /\ RLt(Zero, n.sizes[k])

\* C9: removeNode on a non-root node whose parent has at least two children
\* removes exactly that child and its sizes entry, keeps the order of the
\* remaining siblings, makes the remaining sizes sum to 1 and keeps the
\* ratio of every pair of remaining siblings; nothing else of the tree
\* changes.
C9_RemoveRenormalizes ==
    (/\ last.op \in {"delete", "merge"} /\ last.done /\ HasPages
     /\ WellFormed(PrePage) /\ UniqueIds(PrePage))
    => LET par == findParentNode(PrePage, last.id)
           i   == IndexOfChild(par, last.id)
           q   == findNode(PostPage, par.id)
           Old(k) == IF k < i THEN k ELSE k + 1
       IN  /\ q.kind = "split"
           /\ Len(q.children) = Len(par.children) - 1
           /\ Len(q.sizes) = Len(par.sizes) - 1
           /\ \A k \in 1..Len(q.children) : q.children[k] = par.children[Old(k)]
           /\ SumSizes(q.sizes) = One
           /\ \A j, k \in 1..Len(q.sizes) :
                 RMul(q.sizes[j], par.sizes[Old(k)]) = RMul(q.sizes[k], par.sizes[Old(j)])
           /\ PostPage = ReplaceAt(PrePage, PathOf(PrePage, par.id), q)

C9_Witness ==
    /\ last.op = "delete" /\ last.done /\ HasPages
    /\ findParentNode(PrePage, last.id).sizes = <<Pct(33), Pct(33), Pct(34)>>
    /\ IndexOfChild(findParentNode(PrePage, last.id), last.id) = 2
    /\ PostPage.sizes = <<Frac(33, 67), Frac(34, 67)>>

\* C10: deleting or merging is refused when the selected node is the page
\* root or the only child of its parent: the pages, the page list and the
\* undo history stay as they were.
C10_RefusedDeleteOrMerge ==
    [][(/\ last'.op \in {"delete", "merge"}
        /\ selectedNode # Null
        /\ (parentNode = Null \/ Len(parentNode.children) <= 1))
       => (/\ pages' = pages /\ pageInfos' = pageInfos
           /\ history' = history /\ historyIndex' = historyIndex)]_vars

C10_Witness ==
    /\ last.op \in {"delete", "merge"} /\ ~last.done
    /\ selectedNode # Null /\ parentNode # Null /\ Len(parentNode.children) = 1
    /\ Len(history) = 2 /\ pages = last.pre

\* a tree without its identifiers: its structure and its content
RECURSIVE StripIds(_)
StripIds(node) ==
    IF node.kind = "split"
    THEN [node EXCEPT !.id = NoId,
                      !.children = [k \in 1..Len(node.children) |-> StripIds(node.children[k])]]
    ELSE [node EXCEPT !.id = NoId]

RECURSIVE NodeAt(_, _)
NodeAt(node, path) ==
    IF path = <<>> THEN node
    ELSE IF node.kind = "split" /\ Head(path) \in 1..Len(node.children)
    THEN NodeAt(node.children[Head(path)], Tail(path))
    ELSE Null

BlankLeaf == StripIds(DEFAULT_LEAF(NoId))

\* C12: splitting the selected node into count panels along a direction
\* replaces it by a SplitNode of that direction with exactly count children
\* of size 1/count; one child holds the original content (the leaf's
\* content, or the whole original subtree), the other count - 1 children
\* are blank default leaves, and nothing outside the replaced subtree
\* changes.
C12_SplitIntoCountPanels ==
    (/\ last.op = "split" /\ HasPages /\ UniqueIds(PrePage)
     /\ last.id \in NodeIds(PrePage))
    => LET t    == findNode(PrePage, last.id)
           path == PathOf(PrePage, last.id)
           m    == NodeAt(PostPage, path)
       IN  /\ m.kind = "split"
           /\ m.direction = last.str
           /\ Len(m.children) = last.index
           /\ Len(m.sizes) = last.index
           /\ \A k \in 1..Len(m.sizes) : m.sizes[k] = Frac(1, last.index)
           /\ \E k \in 1..Len(m.children) :
                 /\ StripIds(m.children[k]) = StripIds(t)
                 /\ t.kind = "split" => m.children[k] = t
                 /\ \A j \in 1..Len(m.children) :
                       j # k => StripIds(m.children[j]) = BlankLeaf
           /\ PostPage = ReplaceAt(PrePage, path, m)

C12_Witness ==
    /\ last.op = "split" /\ HasPages /\ last.index = 3 /\ last.str = "vertical"
    /\ last.id \in NodeIds(PrePage)
    /\ findNode(PrePage, last.id).kind = "leaf"
    /\ findNode(PrePage, last.id).textProps.text = "Hello"
    /\ Len(PathOf(PrePage, last.id)) = 1
    /\ NodeAt(PostPage, PathOf(PrePage, last.id)).children[1].textProps.text = "Hello"

AllIds(ps) == UNION {NodeIds(ps[p]) : p \in 1..Len(ps)}

\* C13: every preset builder call and every application of a preset to a
\* page yields a brand-new tree: the tree it puts in place shares no node
\* identifier with any tree that was there before, so two applications of
\* the same preset share none.
C13_PresetTreesAreFresh ==
    /\ (last.op = "preset" /\ HasPages)
       => NodeIds(PostPage) \cap AllIds(last.pre) = {}
    /\ (last.op = "addPage" /\ Len(pages) = Len(last.pre) + 1)
       => NodeIds(pages[Len(pages)]) \cap AllIds(last.pre) = {}

\* C14: when a text or image generation request fails, the target leaf's
\* contentType, textProps and imageProps are what they were before, and no
\* page tree changes.
C14_FailedGenerationLeavesTree ==
    last.op \in {"textFailed", "imageFailed"} => pages = last.pre

\* C15: pages and pageInfos stay parallel: after any sequence of addPage,
\* deletePage, duplicatePage, panel edits, preset application, undo and
\* redo there is one pageInfos entry for each page.
C15_PagesAndInfosParallel == Len(pageInfos) = Len(pages)

PageChangingOps ==
    {"split", "merge", "delete", "duplicate", "resize", "text", "preset",
     "addPage", "deletePage", "duplicatePage"}

\* C16: undo undoes the last action: right after a user action that changed
\* pages, one undo sets pages to the value they had just before that
\* action.
C16_UndoRestoresPagesBeforeLastAction ==
    [][(/\ last'.op = "undo"
        /\ last.op \in PageChangingOps
        /\ pages # last.pre)
       => pages' = last.pre]_vars

\* C17: redo reverses undo: an undo followed at once by a redo leaves pages
\* equal to what they were before the undo.
C17_RedoReversesUndo ==
    [][(last'.op = "redo" /\ last.op = "undo") => pages' = last.pre]_vars

\* the event has exactly the key and the modifiers of the entry; as in the
\* handler, the Meta key stands for Ctrl
Matches(e, entry) ==
    /\ e.key = entry.key
    /\ (e.ctrlKey \/ e.metaKey) = entry.ctrl
    /\ e.shiftKey = entry.shift /\ e.altKey = entry.alt

Editable(e) == e.tagName \in {"INPUT", "TEXTAREA"} \/ e.isContentEditable

IsKeyDown == last.op = "keydown"

C19_DragAppliesTotalDisplacementOnce ==
    (/\ last.op = "resize" /\ drag.active /\ HasPages
     /\ last.id \in NodeIds(PostPage)
     /\ last.index + 2 <= Len(drag.sizes))
    => LET m == findNode(PostPage, last.id)
           i == last.index + 1
           total == RAdd(drag.sizes[i], drag.sizes[i + 1])
           a == Clamp(RAdd(drag.sizes[i], last.arg), Frac(8, 100), RSub(total, Frac(8, 100)))
       IN  m.sizes = [drag.sizes EXCEPT ![i] = a, ![i + 1] = RSub(total, a)]

\* C20: a single-entry size change made through the SplitInspector slider
\* renormalizes the split: whatever the number of children and the slider
\* value, the sizes of the changed split sum to 1 afterwards.
C20_SliderRenormalizes ==
    (last.op = "slider" /\ last.done /\ HasPages /\ last.id \in NodeIds(PostPage))
    => NearlyOne(SumSizes(findNode(PostPage, last.id).sizes))

\* C21: a generation result is only ever written into the leaf that was
\* selected when the generation was started: when the result is applied, a
\* page tree changes only if it is the page the request was started on
\* (told apart by its pageInfos id) and it still holds the target leaf; when
\* that leaf or its page is gone, no page tree changes.
C21_ResultOnlyIntoTargetLeaf ==
    (last.op \in {"textDone", "imageDone"} /\ Len(pages) = Len(last.pre))
    => \A i \in 1..Len(pages) :
          pages[i] # last.pre[i]
          => /\ i <= Len(pageInfos)
             /\ pageInfos[i].id = last.index
             /\ last.id \in LeafIds(last.pre[i])

\* C22: no shortcut callback is invoked for a keydown whose target is an
\* INPUT, a TEXTAREA or a contentEditable element, nor for any keydown while
\* enabled is false.
C22_NoShortcutWhileTyping ==
    (IsKeyDown /\ (~last.done \/ Editable(last.u.e))) => last.u.calls = <<>>

C22_Witness ==
    /\ IsKeyDown /\ last.done
    /\ last.u.e.tagName = "TEXTAREA" /\ last.u.e.key = "Backspace"
    /\ ~last.u.e.ctrlKey /\ ~last.u.e.metaKey
    /\ last.u.calls = <<>>

\* C23: edits recorded in the undo history while a generation is in flight
\* are still there after the result is applied: the history after the
\* completion is the history just before it (up to the current entry) plus
\* one new entry for the pages with the result.
C23_CompletionKeepsHistory ==
    [][last'.op \in {"textDone", "imageDone"}
       => history' = SubSeq(history, 1, historyIndex + 1) \o <<JsonClonePages(pages')>>]_vars

\* C24: a complete drag gesture is one undo step: when a gesture with at
\* least one pointer-move has ended with pointer-up, one undo gives the
\* split (found at the same place of the same page) the sizes it had at
\* pointer-down.
C24_GestureIsOneUndoStep ==
    [][(/\ last.op = "mouseup" /\ last'.op = "undo"
        /\ last.page < Len(pages)
        /\ last.id \in NodeIds(pages[last.page + 1])
        /\ last.u.moved)
       => /\ last.page < Len(pages')
          /\ LET m == NodeAt(pages'[last.page + 1], PathOf(pages[last.page + 1], last.id))
             IN  m # Null /\ m.kind = "split" /\ m.sizes = last.u.sizes]_vars

\* C25: in every reachable state of the editor the history is non-empty and
\* 0 <= historyIndex < history.length, so the entries undo and redo read
\* (history[historyIndex - 1], history[historyIndex + 1]) exist.
C25_HistoryIndexInRange ==
    /\ Len(history) >= 1
    /\ historyIndex \in 0..(Len(history) - 1)
    /\ (last.op \in {"undo", "redo"} => pages = history[historyIndex + 1])

C25_Witness ==
    /\ last.op = "redo"
    /\ Len(history) = 2 /\ historyIndex = 1
    /\ pages = history[2]

\* C26: after any sequence of addPage, deletePage, duplicatePage, page
\* selection, undo and redo, selectedPage and spreadIndex are valid indices
\* into pages.
C26_SelectionInsidePages ==
    /\ selectedPage \in 0..(Len(pages) - 1)
    /\ spreadIndex \in 0..(Len(pages) - 1)

\* C27: cancel is final: once a job's status is "canceled", no later event
\* changes that job's status to "completed" or "failed".
C27_CancelIsFinal ==
    [][\A k \in 1..Len(generationJobs) :
          generationJobs[k].status = "canceled"
          => \A j \in 1..Len(generationJobs') :
                generationJobs'[j].id = generationJobs[k].id
                => generationJobs'[j].status \notin {"completed", "failed"}]_vars

====
